---------------------------- MODULE Spec2Model ----------------------------
(***************************************************************************)
(* Model of src/components/LiquidityDepth/DensityChart.tsx: the hook       *)
(* useDensityChartData (two effects over three pieces of state) and the    *)
(* component DensityChart (render output and the brush-end handler).       *)
(*                                                                         *)
(* A JavaScript number is a record [k, m, e]: k = "num" stands for the     *)
(* decimal m * 10^(-e) kept normalised (no trailing zero in m while e > 0),*)
(* k = "NaN" for NaN and k = "undefined" for a missing value.  A string is *)
(* a sequence of one-character strings.                                    *)
(***************************************************************************)
EXTENDS Integers, Sequences, FiniteSets, TLC

\* ------------------------------------------------------------- bounds
\* Longest tick array the data hook returns in the model.
MaxTicks == 2
\* Number of changes of props / hook results in one behaviour.
MaxEnvChanges == 2

\* ------------------------------------------------------------ numbers
RECURSIVE Pow10(_)
Pow10(n) == IF n = 0 THEN 1 ELSE 10 * Pow10(n - 1)

RECURSIVE Norm(_, _)
Norm(m, e) ==
    IF e > 0 /\ m % 10 = 0 THEN Norm(m \div 10, e - 1)
    ELSE [k |-> "num", m |-> m, e |-> e]

Num(m, e) == Norm(m, e)
NaN == [k |-> "NaN", m |-> 0, e |-> 0]
Undefined == [k |-> "undefined", m |-> 0, e |-> 0]

\* JavaScript truthiness of a number | undefined: 0, NaN and undefined are falsy.
Truthy(x) == x.k = "num" /\ x.m # 0

\* x > 0 as JavaScript evaluates it: false for NaN.
GreaterThanZero(x) == x.k = "num" /\ x.m > 0

DigitChars == <<"0", "1", "2", "3", "4", "5", "6", "7", "8", "9">>

DigitValue(c) == CHOOSE d \in 0..9 : DigitChars[d + 1] = c

IsDigit(c) == \E d \in 0..9 : DigitChars[d + 1] = c

\* The decimal digits of a natural number, most significant first.
RECURSIVE NatToChars(_)
NatToChars(n) ==
    IF n < 10 THEN <<DigitChars[n + 1]>>
    ELSE NatToChars(n \div 10) \o <<DigitChars[(n % 10) + 1]>>

\* JSBI.toString() of a big integer.
BigIntToString(n) == IF n < 0 THEN <<"-">> \o NatToChars(-n) ELSE NatToChars(n)

\* The longest prefix of s made of digits.
RECURSIVE DigitPrefix(_)
DigitPrefix(s) ==
    IF s # <<>> /\ IsDigit(Head(s)) THEN <<Head(s)>> \o DigitPrefix(Tail(s))
    ELSE <<>>

RECURSIVE DigitsValue(_, _)
DigitsValue(ds, acc) ==
    IF ds = <<>> THEN acc ELSE DigitsValue(Tail(ds), 10 * acc + DigitValue(Head(ds)))

\* parseFloat on decimal literals: an optional sign, digits, an optional
\* fraction; the longest such prefix is read and NaN is returned when no
\* digit is found.
ParseFloat(s) ==
    LET neg == s # <<>> /\ Head(s) = "-"
        body == IF neg THEN Tail(s) ELSE s
        ip == DigitPrefix(body)
        rest == SubSeq(body, Len(ip) + 1, Len(body))
        fp == IF rest # <<>> /\ Head(rest) = "." THEN DigitPrefix(Tail(rest)) ELSE <<>>
        mag == DigitsValue(ip \o fp, 0)
    IN  IF ip = <<>> /\ fp = <<>> THEN NaN
        ELSE Num(IF neg THEN -mag ELSE mag, Len(fp))

\* n written with at least w digits (zero padded on the left).
RECURSIVE PadLeft(_, _)
PadLeft(cs, w) == IF Len(cs) >= w THEN cs ELSE PadLeft(<<"0">> \o cs, w)

\* Number.prototype.toFixed(d) of a finite number: the nearest multiple of
\* 10^(-d), ties to the larger magnitude, written with exactly d decimals.
ToFixed(x, d) ==
    LET mag == IF x.m < 0 THEN -x.m ELSE x.m
        n == IF x.e <= d THEN mag * Pow10(d - x.e)
             ELSE (mag + 5 * Pow10(x.e - d - 1)) \div Pow10(x.e - d)
        cs == PadLeft(NatToChars(n), d + 1)
        ip == SubSeq(cs, 1, Len(cs) - d)
        fp == SubSeq(cs, Len(cs) - d + 1, Len(cs))
        sign == IF x.m < 0 THEN <<"-">> ELSE <<>>
    IN  IF x.k # "num" THEN <<"N", "a", "N">>
        ELSE sign \o ip \o (IF d > 0 THEN <<".">> \o fp ELSE <<>>)

\* a <= b for two finite numbers: by sign, else at the finer of the two scales.
NumLeq(a, b) ==
    IF a.m <= 0 /\ b.m >= 0 THEN TRUE
    ELSE IF a.m >= 0 /\ b.m <= 0 THEN FALSE
    ELSE IF a.e <= b.e THEN a.m * Pow10(b.e - a.e) <= b.m
    ELSE a.m <= b.m * Pow10(a.e - b.e)

\* ---------------------------------------------------- program constants
\* PRICE_FIXED_DIGITS is imported from hooks/usePoolTickData (line 9).
PRICE_FIXED_DIGITS == 8

\* sampleData (lines 27-35) as the points VictoryBar plots: x = price0,
\* y = activeLiquidity.
sampleData ==
    << [x |-> Num(0, 0), y |-> Num(1, 0)], [x |-> Num(1, 0), y |-> Num(2, 0)],
       [x |-> Num(2, 0), y |-> Num(3, 0)], [x |-> Num(3, 0), y |-> Num(6, 0)],
       [x |-> Num(4, 0), y |-> Num(5, 0)], [x |-> Num(5, 0), y |-> Num(3, 0)],
       [x |-> Num(6, 0), y |-> Num(2, 0)] >>

\* ------------------------------------------------- values of the inputs
\* An array | undefined.
UndefinedData == [def |-> FALSE, arr |-> <<>>]
Data(a) == [def |-> TRUE, arr |-> a]

\* TickProcessed records the data hook can return: tickIdx, liquidityActive
\* (a JSBI integer) and the two prices as decimal strings.
Ticks ==
    { [tickIdx |-> 0, liquidityActive |-> 5,
       price0 |-> <<"1", ".", "5", "0">>, price1 |-> <<"0", ".", "6">>],
      [tickIdx |-> 1, liquidityActive |-> 12,
       price0 |-> <<"3">>, price1 |-> <<"0", ".", "3">>] }

TickArrays == UNION { [1..n -> Ticks] : n \in 0..MaxTicks }

\* tickData: TickProcessed[] | undefined
TickDataValues == { UndefinedData } \cup { Data(a) : a \in TickArrays }

\* The tick array of a pool whose data has arrived when the chart mounts.
LoadedTicks ==
    << [tickIdx |-> 0, liquidityActive |-> 5,
        price0 |-> <<"1", ".", "5", "0">>, price1 |-> <<"0", ".", "6">>],
       [tickIdx |-> 1, liquidityActive |-> 12,
        price0 |-> <<"3">>, price1 |-> <<"0", ".", "3">>] >>

\* activeTick: number | undefined
ActiveTickValues == { [def |-> FALSE, v |-> 0] } \cup { [def |-> TRUE, v |-> t] : t \in 0..1 }

\* Bounds of a brush domain, after Number(): NaN, a negative number, 0,
\* a positive number below half a unit of the last fixed digit, and
\* ordinary positive numbers.
DomainValues == { NaN, Num(-15, 1), Num(0, 0), Num(4, 9), Num(15, 1) }

\* ---------------------------------------------------------------- state
VARIABLES
    currencyA, currencyB, feeAmount,   \* props: TRUE when defined (truthy)
    price,                             \* prop: TRUE when a non-empty string
    priceLower, priceUpper,            \* props: TRUE when defined
    loading, syncing, activeTick, tickData,   \* results of usePoolTickData
    formattedData, priceAtActiveTick, maxLiquidity,   \* useState cells
    lastDeps,      \* dependency values of the last render
    fdFresh,       \* formattedData was set since the last render (new array)
    tdFresh,       \* the hook returned a new tickData array since the last render
    scheduled,     \* effects the last render scheduled
    mounted, dirty, pc,
    view,          \* what the last render returned
    calls,         \* callback invocations of the last brush-end event
    lastDomain,    \* the domain of the last brush-end event
    budget

vars == << currencyA, currencyB, feeAmount, price, priceLower, priceUpper,
           loading, syncing, activeTick, tickData,
           formattedData, priceAtActiveTick, maxLiquidity,
           lastDeps, fdFresh, tdFresh, scheduled, mounted, dirty, pc,
           view, calls, lastDomain, budget >>

props == << currencyA, currencyB, feeAmount, price, priceLower, priceUpper >>
hook == << loading, syncing, activeTick, tickData >>
cells == << formattedData, priceAtActiveTick, maxLiquidity >>
brush == << calls, lastDomain >>
cycle == << lastDeps, fdFresh, tdFresh, scheduled, mounted, pc, view >>

\* calls and lastDomain describe the step that led to the state: a step that
\* is no brush-end event leaves them empty.
NoBrushEvent == calls' = <<>> /\ lastDomain' = <<>>

\* formattedData?.length as a number (undefined?.length is falsy)
DataLength(d) == IF d.def THEN Len(d.arr) ELSE 0

NoView ==
    [ spinner |-> FALSE, syncingIndicator |-> FALSE, noData |-> FALSE, chart |-> FALSE,
      allowDraw |-> FALSE, allowDrag |-> FALSE, allowResize |-> FALSE,
      brushDomainSet |-> FALSE, bars |-> <<>>, line |-> FALSE, lineData |-> <<>> ]

Deps == [ currencyA |-> currencyA, currencyB |-> currencyB, feeAmount |-> feeAmount,
          loading |-> loading, activeTick |-> activeTick ]

Init ==
    /\ currencyA \in BOOLEAN /\ currencyB = currencyA /\ feeAmount = currencyA
    /\ price = TRUE
    /\ priceLower = FALSE /\ priceUpper = FALSE
    /\ loading \in BOOLEAN /\ syncing = FALSE
    /\ activeTick = [def |-> TRUE, v |-> 0]
    /\ tickData \in { UndefinedData, Data(LoadedTicks) }
    /\ formattedData = UndefinedData
    /\ priceAtActiveTick = Undefined
    /\ maxLiquidity = Num(0, 0)
    /\ lastDeps = Deps
    /\ fdFresh = FALSE /\ tdFresh = FALSE
    /\ scheduled = [clear |-> FALSE, format |-> FALSE]
    /\ mounted = FALSE /\ dirty = TRUE /\ pc = "idle"
    /\ view = NoView
    /\ calls = <<>> /\ lastDomain = <<>>
    /\ budget = MaxEnvChanges

\* ------------------------------------------------------ the environment
\* A change of props or hook results while a render is not in progress;
\* changes that arrive before the next render are seen together by it.
EnvStep == pc = "idle" /\ budget > 0 /\ dirty' = TRUE /\ budget' = budget - 1

\* The parent re-renders with currencyA, currencyB or feeAmount supplied or
\* removed.
SetCurrencyA ==
    /\ EnvStep
    /\ currencyA' = ~currencyA
    /\ NoBrushEvent
    /\ UNCHANGED << currencyB, feeAmount, price, priceLower, priceUpper, hook, cells, cycle >>

SetCurrencyB ==
    /\ EnvStep
    /\ currencyB' = ~currencyB
    /\ NoBrushEvent
    /\ UNCHANGED << currencyA, feeAmount, price, priceLower, priceUpper, hook, cells, cycle >>

SetFeeAmount ==
    /\ EnvStep
    /\ feeAmount' = ~feeAmount
    /\ NoBrushEvent
    /\ UNCHANGED << currencyA, currencyB, price, priceLower, priceUpper, hook, cells, cycle >>

\* The parent re-renders with another price or another selected range.
SetPrice ==
    /\ EnvStep
    /\ price' = ~price
    /\ NoBrushEvent
    /\ UNCHANGED << currencyA, currencyB, feeAmount, priceLower, priceUpper, hook, cells, cycle >>

SetPriceLower ==
    /\ EnvStep
    /\ priceLower' = ~priceLower
    /\ NoBrushEvent
    /\ UNCHANGED << currencyA, currencyB, feeAmount, price, priceUpper, hook, cells, cycle >>

SetPriceUpper ==
    /\ EnvStep
    /\ priceUpper' = ~priceUpper
    /\ NoBrushEvent
    /\ UNCHANGED << currencyA, currencyB, feeAmount, price, priceLower, hook, cells, cycle >>

\* usePoolTickData returns another loading or syncing flag, or another
\* active tick.
HookLoading ==
    /\ EnvStep
    /\ loading' = ~loading
    /\ NoBrushEvent
    /\ UNCHANGED << props, syncing, activeTick, tickData, cells, cycle >>

HookSyncing ==
    /\ EnvStep
    /\ syncing' = ~syncing
    /\ NoBrushEvent
    /\ UNCHANGED << props, loading, activeTick, tickData, cells, cycle >>

HookActiveTick ==
    /\ EnvStep
    /\ \E t \in ActiveTickValues : t # activeTick /\ activeTick' = t
    /\ NoBrushEvent
    /\ UNCHANGED << props, loading, syncing, tickData, cells, cycle >>

\* usePoolTickData returns a new tickData value (a new array, possibly with
\* the contents of the previous one).
HookTickData ==
    /\ EnvStep
    /\ \E td \in TickDataValues :
          /\ td.def \/ tickData.def
          /\ tickData' = td
    /\ tdFresh' = TRUE
    /\ NoBrushEvent
    /\ UNCHANGED << props, loading, syncing, activeTick, cells,
                    lastDeps, fdFresh, scheduled, mounted, pc, view >>

\* ------------------------------------------------------------- the hook
\* Lines 94-96: the three parseFloat conversions of a tick, tabulated over
\* the ticks of the model.
ParsedTick ==
    [ t \in Ticks |->
        [ activeLiquidity |-> ParseFloat(BigIntToString(t.liquidityActive)),
          price0 |-> ParseFloat(t.price0),
          price1 |-> ParseFloat(t.price1) ] ]

\* Line 106: parseFloat(maxLiquidity.toString()), tabulated over the values
\* the running maximum can take.
ParsedLiquidity ==
    [ n \in {0} \cup { t.liquidityActive : t \in Ticks } |->
        ParseFloat(BigIntToString(n)) ]

\* The variant compares the position in the array with the active tick.
ChartEntryByPosition(t, i, tick) ==
    [ index |-> i - 1,
      isCurrent |-> tick.def /\ i - 1 = tick.v,
      activeLiquidity |-> ParsedTick[t].activeLiquidity,
      price0 |-> ParsedTick[t].price0,
      price1 |-> ParsedTick[t].price1 ]

\* Lines 84-97: the chart entry of tickData[i] (i counted from 1 here).
ChartEntry(t, i, tick) ==
    [ index |-> i - 1,
      isCurrent |-> tick.def /\ t.tickIdx = tick.v,
      activeLiquidity |-> ParsedTick[t].activeLiquidity,
      price0 |-> ParsedTick[t].price0,
      price1 |-> ParsedTick[t].price1 ]

NewData(arr, tick) == [ i \in 1..Len(arr) |-> ChartEntry(arr[i], i, tick) ]

\* Lines 81, 87-89: the running JSBI maximum, starting from 0.
RECURSIVE MaxLiquidityOf(_, _)
MaxLiquidityOf(arr, acc) ==
    IF arr = <<>> THEN acc
    ELSE MaxLiquidityOf(Tail(arr),
                        IF Head(arr).liquidityActive > acc
                        THEN Head(arr).liquidityActive ELSE acc)

\* Lines 99-101: the value left by the setPriceAtActiveTick calls of the
\* loop (the last one wins), cur when no entry is active.
RECURSIVE LastActivePrice(_, _)
LastActivePrice(entries, cur) ==
    IF entries = <<>> THEN cur
    ELSE LastActivePrice(Tail(entries),
                         IF Head(entries).isCurrent THEN Head(entries).price0 ELSE cur)

\* The variant asks for all three inputs to be missing.
ClearConditionAllMissing ==
    (~currencyA /\ ~currencyB /\ ~feeAmount) /\ DataLength(formattedData) # 0

\* Lines 68-72: the effect that clears the data when the inputs are cleared.
ClearCondition ==
    (~currencyA \/ ~currencyB \/ ~feeAmount) /\ DataLength(formattedData) # 0

ClearEffect ==
    /\ pc = "clear"
    /\ IF scheduled.clear /\ ClearCondition
       THEN /\ formattedData' = Data(<<>>)
            /\ fdFresh' = TRUE
            /\ dirty' = TRUE
       ELSE UNCHANGED << formattedData, fdFresh, dirty >>
    /\ pc' = "format"
    /\ NoBrushEvent
    /\ UNCHANGED << props, hook, priceAtActiveTick, maxLiquidity,
                    lastDeps, tdFresh, scheduled, mounted, view, budget >>

\* Lines 74-116: the effect that formats the tick data.
FormatGuard == ~loading /\ DataLength(tickData) # 0

\* Lines 80-109: the three state updates of formatData.
FormattedPrice ==
    LastActivePrice(NewData(tickData.arr, activeTick), priceAtActiveTick)

FormattedMaxLiquidity == ParsedLiquidity[MaxLiquidityOf(tickData.arr, 0)]

FormatEffect ==
    /\ pc = "format"
    /\ IF scheduled.format /\ FormatGuard
       THEN /\ priceAtActiveTick' = FormattedPrice
            /\ maxLiquidity' = FormattedMaxLiquidity
            /\ formattedData' = Data(NewData(tickData.arr, activeTick))
            /\ fdFresh' = TRUE
            /\ dirty' = TRUE
       ELSE UNCHANGED << cells, fdFresh, dirty >>
    /\ pc' = "idle"
    /\ NoBrushEvent
    /\ UNCHANGED << props, hook, lastDeps, tdFresh, scheduled, mounted,
                    view, budget >>

\* -------------------------------------------------------- the component
\* Lines 222-227: the points of the bars.
Bars(d) ==
    IF d.def THEN [ i \in 1..Len(d.arr) |->
                      [x |-> d.arr[i].price0, y |-> d.arr[i].activeLiquidity] ]
    ELSE sampleData

\* Lines 232-239: the points of the current-price line.
LineData ==
    IF Truthy(maxLiquidity) /\ Truthy(priceAtActiveTick)
    THEN << [x |-> priceAtActiveTick, y |-> Num(0, 0)],
            [x |-> priceAtActiveTick, y |-> maxLiquidity] >>
    ELSE <<>>

\* Lines 194-195, 209: Boolean(formattedData?.length), the value of allowDrag
\* and allowResize.  The variant takes undefined for data.
BrushEnabledUnlessEmpty == ~formattedData.def \/ Len(formattedData.arr) # 0

BrushEnabled == DataLength(formattedData) # 0

\* Lines 171-266: what DensityChart returns once loading is over.
LoadedOutput ==
    IF formattedData.def /\ Len(formattedData.arr) = 0
    THEN [NoView EXCEPT !.syncingIndicator = syncing, !.noData = TRUE]
    ELSE [ spinner |-> FALSE, syncingIndicator |-> syncing, noData |-> FALSE,
           chart |-> TRUE,
           allowDraw |-> FALSE,
           allowDrag |-> BrushEnabled,
           allowResize |-> BrushEnabled,
           brushDomainSet |-> priceLower /\ priceUpper,
           bars |-> Bars(formattedData),
           line |-> price,
           lineData |-> IF price THEN LineData ELSE <<>> ]

\* The variant returns the spinner only while no data is held.
RenderOutputSpinnerWithoutData ==
    IF loading /\ ~formattedData.def THEN [NoView EXCEPT !.spinner = TRUE]
    ELSE LoadedOutput

\* Lines 163-266: what DensityChart returns.
RenderOutput ==
    IF loading THEN [NoView EXCEPT !.spinner = TRUE]
    ELSE LoadedOutput

\* A render: the component function runs and React schedules the effects
\* whose dependencies differ from those of the previous render.
Render ==
    /\ pc = "idle" /\ dirty
    /\ view' = RenderOutput
    /\ scheduled' =
         [ clear |-> \/ ~mounted
                     \/ fdFresh
                     \/ << lastDeps.currencyA, lastDeps.currencyB, lastDeps.feeAmount >>
                          # << currencyA, currencyB, feeAmount >>,
           format |-> \/ ~mounted
                      \/ tdFresh
                      \/ << lastDeps.loading, lastDeps.activeTick >>
                           # << loading, activeTick >> ]
    /\ lastDeps' = Deps
    /\ fdFresh' = FALSE /\ tdFresh' = FALSE
    /\ mounted' = TRUE /\ dirty' = FALSE
    /\ pc' = "clear"
    /\ NoBrushEvent
    /\ UNCHANGED << props, hook, cells, budget >>

\* The variant forwards the right bound only after the left one.
BrushCallsChained(d) ==
    IF GreaterThanZero(d[1])
    THEN << [fn |-> "onLeftRangeInput", arg |-> ToFixed(d[1], PRICE_FIXED_DIGITS)] >>
         \o (IF GreaterThanZero(d[2])
             THEN << [fn |-> "onRightRangeInput",
                      arg |-> ToFixed(d[2], PRICE_FIXED_DIGITS)] >>
             ELSE <<>>)
    ELSE <<>>

\* Lines 212-218: the calls onBrushDomainChangeEnd makes for a domain.
BrushCalls(d) ==
    (IF GreaterThanZero(d[1])
     THEN << [fn |-> "onLeftRangeInput", arg |-> ToFixed(d[1], PRICE_FIXED_DIGITS)] >>
     ELSE <<>>)
    \o
    (IF GreaterThanZero(d[2])
     THEN << [fn |-> "onRightRangeInput", arg |-> ToFixed(d[2], PRICE_FIXED_DIGITS)] >>
     ELSE <<>>)

\* The user ends a drag or a resize of the brush; VictoryBrushContainer
\* reports a domain [x0, x1] with x0 <= x1, and only for a gesture it
\* allows.  The handler changes no state of the component, so an event that
\* follows another leads to the states the first one leads to: only the
\* first is taken.
BrushEnd ==
    /\ pc = "idle" /\ ~dirty /\ lastDomain = <<>>
    /\ view.chart /\ (view.allowDrag \/ view.allowResize \/ view.allowDraw)
    /\ \E x0 \in DomainValues, x1 \in DomainValues :
          /\ (x0.k = "num" /\ x1.k = "num") => NumLeq(x0, x1)
          /\ lastDomain' = << x0, x1 >>
          /\ calls' = BrushCalls(<< x0, x1 >>)
    /\ UNCHANGED << props, hook, cells, cycle, dirty, budget >>

Next ==
    \/ SetCurrencyA
    \/ SetCurrencyB
    \/ SetFeeAmount
    \/ SetPrice
    \/ SetPriceLower
    \/ SetPriceUpper
    \/ HookLoading
    \/ HookSyncing
    \/ HookActiveTick
    \/ HookTickData
    \/ Render
    \/ ClearEffect
    \/ FormatEffect
    \/ BrushEnd

Spec == Init /\ [][Next]_vars

Settled == pc = "idle" /\ ~dirty

\* Fairness: React runs a scheduled render and the effects of a committed
\* render; nothing obliges the parent, the data hook or the user to act.
LiveSpec ==
    Spec /\ WF_vars(Render) /\ WF_vars(ClearEffect) /\ WF_vars(FormatEffect)

\* ------------------------------------------------------------ properties
InputsCleared == ~currencyA \/ ~currencyB \/ ~feeAmount

\* fd is the one-to-one, order-preserving image of the tick array td under
\* the active tick at.
IsImageOf(fd, td, at) ==
    /\ fd.def /\ td.def
    /\ Len(fd.arr) = Len(td.arr)
    /\ \A i \in 1..Len(td.arr) :
          /\ fd.arr[i].index = i - 1
          /\ fd.arr[i].price0 = ParseFloat(td.arr[i].price0)
          /\ fd.arr[i].price1 = ParseFloat(td.arr[i].price1)
          /\ fd.arr[i].activeLiquidity = Num(td.arr[i].liquidityActive, 0)
          /\ fd.arr[i].isCurrent <=> (at.def /\ td.arr[i].tickIdx = at.v)

\* The step in which the formatting effect runs its body.
FormatStep ==
    /\ pc = "format" /\ pc' = "idle"
    /\ scheduled.format /\ ~loading /\ DataLength(tickData) # 0

\* C1: whenever the formatting effect runs with loading false and a non-empty
\* tickData, the formattedData it leaves has one entry per tick, in order,
\* entry i with index i, the prices and the liquidity of tick i, and
\* isCurrent exactly when the tick's tickIdx is activeTick.
C1_FormatIsImage ==
    [][FormatStep => IsImageOf(formattedData', tickData, activeTick)]_vars

\* A formatted array of two entries, one current and one not, just written.
C1_Witness ==
    /\ pc = "idle" /\ fdFresh /\ scheduled.format
    /\ DataLength(formattedData) = 2
    /\ formattedData.arr[1].isCurrent /\ ~formattedData.arr[2].isCurrent
    /\ IsImageOf(formattedData, tickData, activeTick)

\* The brush-end event of the state: its domain and the calls it made.
LeftCalls == { i \in DOMAIN calls : calls[i].fn = "onLeftRangeInput" }
RightCalls == { i \in DOMAIN calls : calls[i].fn = "onRightRangeInput" }

\* C2 as stated: every brush-end event calls onLeftRangeInput once with x0
\* and onRightRangeInput once with x1, formatted to PRICE_FIXED_DIGITS
\* decimals, left before right, and makes no other call.
C2_EveryEventForwarded ==
    lastDomain # <<>> =>
        calls = << [fn |-> "onLeftRangeInput",
                    arg |-> ToFixed(lastDomain[1], PRICE_FIXED_DIGITS)],
                   [fn |-> "onRightRangeInput",
                    arg |-> ToFixed(lastDomain[2], PRICE_FIXED_DIGITS)] >>

\* C2 amended: a brush-end event forwards each bound that is strictly
\* positive exactly once (x0 to onLeftRangeInput, x1 to onRightRangeInput,
\* formatted to PRICE_FIXED_DIGITS decimals, left before right), forwards no
\* bound that is 0, negative or NaN, and makes no other call.
C2_PositiveBoundsForwarded ==
    lastDomain # <<>> =>
        /\ LeftCalls \cup RightCalls = DOMAIN calls
        /\ Cardinality(LeftCalls) = (IF GreaterThanZero(lastDomain[1]) THEN 1 ELSE 0)
        /\ Cardinality(RightCalls) = (IF GreaterThanZero(lastDomain[2]) THEN 1 ELSE 0)
        /\ \A i \in LeftCalls : calls[i].arg = ToFixed(lastDomain[1], PRICE_FIXED_DIGITS)
        /\ \A i \in RightCalls : calls[i].arg = ToFixed(lastDomain[2], PRICE_FIXED_DIGITS)
        /\ \A i \in LeftCalls, j \in RightCalls : i < j

\* An event whose left bound is skipped and whose right bound is forwarded.
C2_Witness ==
    /\ lastDomain # <<>>
    /\ ~GreaterThanZero(lastDomain[1]) /\ GreaterThanZero(lastDomain[2])
    /\ Len(calls) = 1 /\ calls[1].fn = "onRightRangeInput"

\* The view belongs to the current props, hook results and state.
ViewCurrent == mounted /\ ~dirty

\* C3: a render with loading true returns the spinner alone (no chart, no
\* brush, no 'No data'), whatever the data and the other props; a render with
\* loading false returns exactly one of 'No data' and the chart.
C3_LoadingShowsOnlySpinner ==
    ViewCurrent =>
        /\ loading => /\ view.spinner
                      /\ ~view.chart /\ ~view.noData /\ ~view.syncingIndicator
                      /\ ~view.allowDrag /\ ~view.allowResize /\ ~view.allowDraw
                      /\ view.bars = <<>> /\ ~view.line
        /\ ~loading => /\ ~view.spinner
                       /\ view.chart # view.noData

\* Loading again while formatted data, a price and a range are present.
C3_Witness ==
    /\ ViewCurrent /\ loading /\ view.spinner
    /\ DataLength(formattedData) # 0 /\ price /\ syncing

\* C4 as stated: once loading has finished and the hook supplies no tick
\* records, the component shows 'No data' and no chart.
C4_NoTicksShowsNoData ==
    (Settled /\ ~loading /\ DataLength(tickData) = 0) => (view.noData /\ ~view.chart)

\* C5 as stated: once the effects have settled with loading false, a
\* non-empty formattedData is the image of the tickData the hook returns now.
C5_DataFollowsTickData ==
    (Settled /\ ~loading /\ DataLength(formattedData) # 0)
        => IsImageOf(formattedData, tickData, activeTick)

\* C6: if an input is missing while formattedData is non-empty then, unless
\* the inputs are supplied again, the effects settle with formattedData the
\* empty array.
C6_ClearedInputsClearData ==
    (InputsCleared /\ DataLength(formattedData) # 0)
        ~> ((Settled /\ formattedData = Data(<<>>)) \/ ~InputsCleared)

\* The inputs have just become missing while data is held, and the hook
\* hands a new tick array to the same render.
C6_Witness ==
    /\ mounted /\ pc = "idle" /\ dirty
    /\ lastDeps.currencyA /\ lastDeps.currencyB /\ lastDeps.feeAmount
    /\ InputsCleared /\ DataLength(formattedData) # 0
    /\ tdFresh /\ ~loading /\ DataLength(tickData) # 0

\* The largest activeLiquidity of the entries of a non-empty array.
IsLargestLiquidity(x, arr) ==
    /\ \E i \in 1..Len(arr) : arr[i].activeLiquidity = x
    /\ \A i \in 1..Len(arr) : NumLeq(arr[i].activeLiquidity, x)

\* C7 as stated: in a settled state where the chart shows formattedData and
\* the current-price line has points, the line stands at the price0 of an
\* entry with isCurrent and is as high as the largest activeLiquidity.
C7_MarkerOnCurrentEntry ==
    (Settled /\ view.chart /\ formattedData.def /\ view.lineData # <<>>) =>
        /\ \E i \in 1..Len(formattedData.arr) :
              /\ formattedData.arr[i].isCurrent
              /\ formattedData.arr[i].price0 = view.lineData[1].x
        /\ IsLargestLiquidity(view.lineData[2].y, formattedData.arr)

\* C8 as stated: no callback is called with a value that is not strictly
\* positive, and each bound is forwarded or skipped on its own.
C8_OnlyPositiveValues ==
    /\ \A i \in DOMAIN calls : GreaterThanZero(ParseFloat(calls[i].arg))
    /\ lastDomain # <<>> =>
          /\ (LeftCalls # {}) <=> GreaterThanZero(lastDomain[1])
          /\ (RightCalls # {}) <=> GreaterThanZero(lastDomain[2])

\* C9: drawing a brush is never enabled, dragging and resizing are enabled
\* exactly when formattedData is non-empty, and a brush-end event happens
\* only while loading is false and formattedData is non-empty.
C9_BrushOnlyOverData ==
    /\ ~view.allowDraw
    /\ (ViewCurrent /\ view.chart) =>
          /\ view.allowDrag <=> (DataLength(formattedData) # 0)
          /\ view.allowResize <=> (DataLength(formattedData) # 0)
    /\ lastDomain # <<>> => (~loading /\ DataLength(formattedData) # 0)

\* A brush-end event that called both callbacks.
C9_Witness ==
    /\ lastDomain # <<>> /\ Len(calls) = 2
    /\ ~loading /\ DataLength(formattedData) # 0

=============================================================================
